---- MODULE Spec2Model ----
(***************************************************************************)
(* Model of the ohlc module (src/src/ohlc.rs): the OHLC candle record, its *)
(* constructors new / build / with_volume, validate, direction, and the    *)
(* slice utilities opens / highs / lows / closes / filter.                 *)
(*                                                                         *)
(* f64 values are modelled as tagged records so that the IEEE-754 cases    *)
(* the code depends on (NaN, +/- infinity, negative zero) are distinct     *)
(* values with their own comparison and finiteness rules.                  *)
(***************************************************************************)
EXTENDS Integers, Sequences, FiniteSets, TLC

VARIABLES args, ohlc, ohlcs, call

vars == <<args, ohlc, ohlcs, call>>

(* ------------------------------ bounds --------------------------------- *)

\* finite f64 values modelled are the integers -1 .. MaxPrice
MaxPrice == 1

\* timestamps given to new / build are 0 .. MaxTs
MaxTs == 1

\* timestamps of the candles of a slice, and filter bounds, are 0 .. MaxSeqTs
MaxSeqTs == 2

\* slices have at most MaxLen candles
MaxLen == 3

(* ------------------------------- f64 ----------------------------------- *)

NaN == [k |-> "nan", v |-> 0]

PosInf == [k |-> "inf", v |-> 1]

NegInf == [k |-> "inf", v |-> -1]

NegZero == [k |-> "negzero", v |-> 0]

Fin(n) == [k |-> "fin", v |-> n]

F64 == {NaN, PosInf, NegInf, NegZero} \cup {Fin(n) : n \in -1..MaxPrice}

\* a finiteness test that only rules out the infinities
is_finite_nan_ok(x) == x.k # "inf"

\* f64::is_finite: neither NaN nor an infinity
is_finite(x) == x.k \in {"fin", "negzero"}

\* IEEE-754 `<` on f64: false when either side is NaN; -0.0 and 0.0 compare equal
f64_lt(a, b) ==
    /\ a.k # "nan"
    /\ b.k # "nan"
    /\ IF a.k = "inf"
       THEN a.v < 0 /\ ~(b.k = "inf" /\ b.v < 0)
       ELSE IF b.k = "inf" THEN b.v > 0 ELSE a.v < b.v

\* IEEE-754 `>` on f64
f64_gt(a, b) == f64_lt(b, a)

\* IEEE-754 `==` on f64: NaN equals nothing, -0.0 == 0.0
f64_eq(a, b) ==
    /\ a.k # "nan"
    /\ b.k # "nan"
    /\ IF a.k = "inf" \/ b.k = "inf" THEN a = b ELSE a.v = b.v

(* ------------------------------ Option --------------------------------- *)

None == [some |-> FALSE]

Some(x) == [some |-> TRUE, val |-> x]

(* ------------------------------ Result --------------------------------- *)

Ok(x) == [tag |-> "Ok", value |-> x]

Err(e) == [tag |-> "Err", errors |-> e]

Unit == "()"

(* ------------------------------- OHLC ---------------------------------- *)

BULLISH == 1

BEARISH == -1

Timestamps == 0..MaxTs

OHLC == [open : F64, high : F64, low : F64, close : F64,
         vol : {None} \cup {Some(x) : x \in F64}, ts : Nat]

\* new with high and low stored in each other's field
new_swapped(open, high, low, close, ts) ==
    [open |-> open, high |-> low, low |-> high, close |-> close,
     vol |-> None, ts |-> ts]

\* OHLC::new
new(open, high, low, close, ts) ==
    [open |-> open, high |-> high, low |-> low, close |-> close,
     vol |-> None, ts |-> ts]

\* with_volume that keeps a volume that is already set
with_volume_keep_first(self, vol) ==
    IF self.vol.some THEN self ELSE [self EXCEPT !.vol = Some(vol)]

\* OHLC::with_volume
with_volume(self, vol) == [self EXCEPT !.vol = Some(vol)]

\* the volume test without the finiteness part
vol_invalid_neg_only(vol) == f64_lt(vol, Fin(0))

\* the volume test with `<=` for `<`
vol_invalid_le(vol) == ~is_finite(vol) \/ ~f64_gt(vol, Fin(0))

\* the test on a present volume in validate
vol_invalid(vol) == ~is_finite(vol) \/ f64_lt(vol, Fin(0))

\* the checks stopping at the first failure
validate_errors_first(self) ==
    IF ~is_finite(self.open) THEN <<"Open price must be finite">>
    ELSE IF ~is_finite(self.high) THEN <<"High price must be finite">>
    ELSE IF ~is_finite(self.low) THEN <<"Low price must be finite">>
    ELSE IF ~is_finite(self.close) THEN <<"Close price must be finite">>
    ELSE IF f64_lt(self.high, self.low)
         THEN <<"High price must be greater than or equal to low price">>
    ELSE IF self.vol.some /\ vol_invalid(self.vol.val)
         THEN <<"Volume must be non-negative and finite">>
    ELSE IF self.ts = 0 THEN <<"Timestamp must be non-zero">>
    ELSE << >>

\* the errors vector of validate once all its checks have run
validate_errors(self) ==
    LET e0 == << >>
        e1 == IF ~is_finite(self.open)
              THEN Append(e0, "Open price must be finite") ELSE e0
        e2 == IF ~is_finite(self.high)
              THEN Append(e1, "High price must be finite") ELSE e1
        e3 == IF ~is_finite(self.low)
              THEN Append(e2, "Low price must be finite") ELSE e2
        e4 == IF ~is_finite(self.close)
              THEN Append(e3, "Close price must be finite") ELSE e3
        e5 == IF f64_lt(self.high, self.low)
              THEN Append(e4, "High price must be greater than or equal to low price")
              ELSE e4
        e6 == IF self.vol.some
              THEN IF vol_invalid(self.vol.val)
                   THEN Append(e5, "Volume must be non-negative and finite")
                   ELSE e5
              ELSE e5
        e7 == IF self.ts = 0
              THEN Append(e6, "Timestamp must be non-zero") ELSE e6
    IN  e7

\* validate without the test for an empty errors vector
validate_always_err(self) == Err(validate_errors(self))

\* OHLC::validate
validate(self) ==
    LET errors == validate_errors(self)
    IN  IF errors = << >> THEN Ok(Unit) ELSE Err(errors)

\* build that reports only the first violation
build_first_only(open, high, low, close, ts) ==
    LET candle == new(open, high, low, close, ts)
        checked == validate(candle)
    IN  IF checked.tag = "Err" THEN Err(<<checked.errors[1]>>) ELSE Ok(candle)

\* OHLC::build
build(open, high, low, close, ts) ==
    LET candle == new(open, high, low, close, ts)
        checked == validate(candle)
    IN  IF checked.tag = "Err" THEN Err(checked.errors) ELSE Ok(candle)

\* direction with Bearish as the fall-through case
direction_else_bearish(self) ==
    IF f64_gt(self.close, self.open) THEN BULLISH
    ELSE IF f64_eq(self.open, self.close) THEN 0
    ELSE BEARISH

\* direction with `>=` in the first comparison
direction_ge(self) ==
    IF ~f64_lt(self.close, self.open) /\ self.close.k # "nan" /\ self.open.k # "nan"
    THEN BULLISH
    ELSE IF f64_gt(self.open, self.close) THEN BEARISH
    ELSE 0

\* OHLC::direction
direction(self) ==
    IF f64_gt(self.close, self.open) THEN BULLISH
    ELSE IF f64_gt(self.open, self.close) THEN BEARISH
    ELSE 0

(* ------------------------------ slices --------------------------------- *)

\* Opts
Opts(before, after) == [exclude_before |-> before, exclude_after |-> after]

\* the closure with exclusive bounds
filter_pred_exclusive(candle, opts) ==
    LET before_ok == IF opts.exclude_before.some
                     THEN candle.ts > opts.exclude_before.val ELSE TRUE
        after_ok == IF opts.exclude_after.some
                    THEN candle.ts < opts.exclude_after.val ELSE TRUE
    IN  before_ok /\ after_ok

\* the closure with a bound of zero read as no bound
filter_pred_zero_absent(candle, opts) ==
    LET before_ok == IF opts.exclude_before.some /\ opts.exclude_before.val # 0
                     THEN candle.ts >= opts.exclude_before.val ELSE TRUE
        after_ok == IF opts.exclude_after.some /\ opts.exclude_after.val # 0
                    THEN candle.ts <= opts.exclude_after.val ELSE TRUE
    IN  before_ok /\ after_ok

\* the closure passed to Iterator::filter in filter; map_or(true, f) is
\* f(bound) when the bound is Some and true when it is None
filter_pred(candle, opts) ==
    LET before_ok == IF opts.exclude_before.some
                     THEN candle.ts >= opts.exclude_before.val ELSE TRUE
        after_ok == IF opts.exclude_after.some
                    THEN candle.ts <= opts.exclude_after.val ELSE TRUE
    IN  before_ok /\ after_ok

RECURSIVE filter_from(_, _, _, _)
\* the iterator chain of filter: visit the candles in order, collect clones of the kept ones
filter_from(s, opts, i, acc) ==
    IF i > Len(s) THEN acc
    ELSE filter_from(s, opts, i + 1,
                     IF filter_pred(s[i], opts) THEN Append(acc, s[i]) ELSE acc)

\* filter
filter(s, opts) == filter_from(s, opts, 1, << >>)

RECURSIVE map_collect_rev(_, _, _, _)
\* the projection collected in reverse order
map_collect_rev(s, field, i, acc) ==
    IF i > Len(s) THEN acc
    ELSE map_collect_rev(s, field, i + 1, <<s[i][field]>> \o acc)

RECURSIVE map_collect(_, _, _, _)
\* iter().map(f).collect() with f a field projection
map_collect(s, field, i, acc) ==
    IF i > Len(s) THEN acc
    ELSE map_collect(s, field, i + 1, Append(acc, s[i][field]))

\* opens
opens(s) == map_collect(s, "open", 1, << >>)

\* highs
highs(s) == map_collect(s, "high", 1, << >>)

\* lows
lows(s) == map_collect(s, "low", 1, << >>)

\* closes
closes(s) == map_collect(s, "close", 1, << >>)

(* ------------------------- inputs of the calls ------------------------- *)

\* the arguments a caller passes to new / build
Args == [open : F64, high : F64, low : F64, close : F64, ts : Timestamps]

NoArgs == [open |-> Fin(0), high |-> Fin(0), low |-> Fin(0), close |-> Fin(0), ts |-> 0]

NoCall == [op |-> "none"]

SeqTimestamps == 0..MaxSeqTs

\* a valid candle with volume, as the tests' fake_ohlc
fake_ohlc(ts) == with_volume(new(Fin(0), Fin(1), Fin(-1), Fin(1), ts), Fin(1))

\* an invalid candle without volume, all four prices different
odd_ohlc(ts) == new(Fin(1), PosInf, NaN, Fin(-1), ts)

SliceCandles == {fake_ohlc(t) : t \in SeqTimestamps} \cup {odd_ohlc(t) : t \in SeqTimestamps}

Slices == UNION {[1..n -> SliceCandles] : n \in 0..MaxLen}

Bounds == {None} \cup {Some(t) : t \in SeqTimestamps}

(* ------------------------------ actions -------------------------------- *)

\* a caller constructs a candle with OHLC::new
New ==
    /\ ohlc = None
    /\ LET r == new(args.open, args.high, args.low, args.close, args.ts)
       IN  /\ ohlc' = Some(r)
           /\ call' = [op |-> "new", ret |-> r]
    /\ UNCHANGED <<args, ohlcs>>

\* a caller constructs a candle with OHLC::build; on Err there is no candle
Build ==
    /\ ohlc = None
    /\ LET r == build(args.open, args.high, args.low, args.close, args.ts)
       IN  /\ ohlc' = IF r.tag = "Ok" THEN Some(r.value) ELSE None
           /\ call' = [op |-> "build", ret |-> r]
    /\ UNCHANGED <<args, ohlcs>>

\* candle.with_volume(vol): consumes the candle and yields the updated one
WithVolume ==
    /\ ohlc.some
    /\ \E vol \in F64 :
         LET r == with_volume(ohlc.val, vol)
         IN  /\ ohlc' = Some(r)
             /\ call' = [op |-> "with_volume", self |-> ohlc.val, vol |-> vol, ret |-> r]
    /\ UNCHANGED <<args, ohlcs>>

\* candle.validate()
Validate ==
    /\ ohlc.some
    /\ call' = [op |-> "validate", self |-> ohlc.val, ret |-> validate(ohlc.val)]
    /\ UNCHANGED <<args, ohlc, ohlcs>>

\* candle.direction()
Direction ==
    /\ ohlc.some
    /\ call' = [op |-> "direction", self |-> ohlc.val, ret |-> direction(ohlc.val)]
    /\ UNCHANGED <<args, ohlc, ohlcs>>

\* filter(&ohlcs, opts)
Filter ==
    /\ \E before \in Bounds, after \in Bounds :
         LET opts == Opts(before, after)
         IN  call' = [op |-> "filter", input |-> ohlcs, opts |-> opts,
                      ret |-> filter(ohlcs, opts)]
    /\ UNCHANGED <<args, ohlc, ohlcs>>

\* opens(&ohlcs)
Opens ==
    /\ call' = [op |-> "opens", input |-> ohlcs, ret |-> opens(ohlcs)]
    /\ UNCHANGED <<args, ohlc, ohlcs>>

\* highs(&ohlcs)
Highs ==
    /\ call' = [op |-> "highs", input |-> ohlcs, ret |-> highs(ohlcs)]
    /\ UNCHANGED <<args, ohlc, ohlcs>>

\* lows(&ohlcs)
Lows ==
    /\ call' = [op |-> "lows", input |-> ohlcs, ret |-> lows(ohlcs)]
    /\ UNCHANGED <<args, ohlc, ohlcs>>

\* closes(&ohlcs)
Closes ==
    /\ call' = [op |-> "closes", input |-> ohlcs, ret |-> closes(ohlcs)]
    /\ UNCHANGED <<args, ohlc, ohlcs>>

(* --------------------------- specifications ---------------------------- *)

\* one candle: any arguments, no candle constructed yet
Init ==
    /\ args \in Args
    /\ ohlc = None
    /\ ohlcs = << >>
    /\ call = NoCall

Next == New \/ Build \/ WithVolume \/ Validate \/ Direction

Spec == Init /\ [][Next]_vars

\* one slice of candles: any slice, no call made yet
InitSlice ==
    /\ args = NoArgs
    /\ ohlc = None
    /\ ohlcs \in Slices
    /\ call = NoCall

NextSlice == Filter \/ Opens \/ Highs \/ Lows \/ Closes

SpecSlice == InitSlice /\ [][NextSlice]_vars

(* ------------------------- the data-model terms ------------------------ *)

\* a price or volume that is neither NaN nor an infinity
Finite(x) == x # NaN /\ x # PosInf /\ x # NegInf

\* a >= b on f64
f64_ge(a, b) == f64_gt(a, b) \/ f64_eq(a, b)

\* the messages of section 4.2, in their fixed order
Messages ==
    <<"Open price must be finite",
      "High price must be finite",
      "Low price must be finite",
      "Close price must be finite",
      "High price must be greater than or equal to low price",
      "Volume must be non-negative and finite",
      "Timestamp must be non-zero">>

\* which of the seven checks of section 4.2 fail on candle c
Failing(c) ==
    <<~Finite(c.open),
      ~Finite(c.high),
      ~Finite(c.low),
      ~Finite(c.close),
      f64_lt(c.high, c.low),
      c.vol.some /\ (~Finite(c.vol.val) \/ f64_lt(c.vol.val, Fin(0))),
      c.ts = 0>>

\* the messages of the failing checks, each once, in the fixed order
ExpectedViolations(c) ==
    LET idx == SelectSeq(<<1, 2, 3, 4, 5, 6, 7>>, LAMBDA i : Failing(c)[i])
    IN  [j \in 1..Len(idx) |-> Messages[idx[j]]]

\* the invariants of the data model (section 3)
ValidCandle(c) ==
    /\ Finite(c.open) /\ Finite(c.high) /\ Finite(c.low) /\ Finite(c.close)
    /\ f64_ge(c.high, c.low)
    /\ c.vol.some => (Finite(c.vol.val) /\ f64_ge(c.vol.val, Fin(0)))
    /\ c.ts # 0

\* the candle new makes of the arguments of this behaviour
ArgsCandle == new(args.open, args.high, args.low, args.close, args.ts)

(* ------------------------------ claims --------------------------------- *)

\* C1: a failing validate returns exactly the messages of the failing checks
\* among the seven, each once, in the fixed order (no short-circuit).
C1_ValidateReportsAllViolations ==
    (call.op = "validate" /\ call.ret.tag = "Err")
        => call.ret.errors = ExpectedViolations(call.self)

\* all seven checks fail at once on one candle
C1_Witness ==
    /\ call.op = "validate"
    /\ call.ret.tag = "Err"
    /\ Len(call.ret.errors) = 7

\* C2: validate succeeds on every candle with finite prices, high >= low,
\* non-zero timestamp and volume absent or finite and >= 0.
C2_ValidCandlePasses ==
    (call.op = "validate" /\ ValidCandle(call.self)) => call.ret.tag = "Ok"

\* a valid candle with zero volume was validated
C2_Witness ==
    /\ call.op = "validate"
    /\ ValidCandle(call.self)
    /\ call.self.vol.some
    /\ f64_eq(call.self.vol.val, Fin(0))

\* C3: when validate succeeds every data-model invariant holds of the candle.
C3_PassImpliesInvariants ==
    (call.op = "validate" /\ call.ret.tag = "Ok") => ValidCandle(call.self)

\* validate succeeded on a candle with high == low and a positive volume
C3_Witness ==
    /\ call.op = "validate"
    /\ call.ret.tag = "Ok"
    /\ f64_eq(call.self.high, call.self.low)
    /\ call.self.vol.some
    /\ f64_gt(call.self.vol.val, Fin(0))

\* C4: build returns Ok(new(args)) exactly when validate passes on that
\* candle, otherwise Err with validate's ordered list; never both.
C4_BuildIsNewThenValidate ==
    call.op = "build" =>
        LET checked == validate(ArgsCandle)
        IN  IF checked.tag = "Ok"
            THEN call.ret = [tag |-> "Ok", value |-> ArgsCandle]
            ELSE call.ret = [tag |-> "Err", errors |-> checked.errors]

\* build failed with several violations at once
C4_Witness ==
    /\ call.op = "build"
    /\ call.ret.tag = "Err"
    /\ Len(call.ret.errors) >= 2

\* C5: a failure of validate or build carries a non-empty list, and success
\* is returned exactly when no check failed.
C5_FailureIsNonEmpty ==
    call.op \in {"validate", "build"} =>
        LET c == IF call.op = "validate" THEN call.self ELSE ArgsCandle
        IN  /\ call.ret.tag = "Err" => call.ret.errors # << >>
            /\ call.ret.tag = "Ok" <=> ExpectedViolations(c) = << >>

\* validate failed with a single violation
C5_Witness ==
    /\ call.op = "validate"
    /\ call.ret.tag = "Err"
    /\ Len(call.ret.errors) = 1

\* C6: new returns a candle whose prices and timestamp are exactly the
\* arguments and whose volume is unset, whatever the arguments are.
C6_NewKeepsArguments ==
    call.op = "new" =>
        /\ call.ret.open = args.open
        /\ call.ret.high = args.high
        /\ call.ret.low = args.low
        /\ call.ret.close = args.close
        /\ call.ret.ts = args.ts
        /\ call.ret.vol = None

\* new was given arguments that break the invariants
C6_Witness ==
    /\ call.op = "new"
    /\ args.open = NaN
    /\ f64_lt(args.high, args.low)
    /\ args.ts = 0
    /\ ohlc = Some(call.ret)

\* C7: with_volume changes the volume to the given value and nothing else;
\* after any sequence of calls the prices and timestamp are the original
\* ones and the volume is that of the last call.
C7_WithVolumeFrame ==
    /\ ohlc.some =>
          /\ ohlc.val.open = args.open
          /\ ohlc.val.high = args.high
          /\ ohlc.val.low = args.low
          /\ ohlc.val.close = args.close
          /\ ohlc.val.ts = args.ts
    /\ call.op = "with_volume" =>
          /\ call.ret.open = call.self.open
          /\ call.ret.high = call.self.high
          /\ call.ret.low = call.self.low
          /\ call.ret.close = call.self.close
          /\ call.ret.ts = call.self.ts
          /\ call.ret.vol = Some(call.vol)
          /\ ohlc = Some(call.ret)

\* a second with_volume, with NaN, on a candle that had a volume
C7_Witness ==
    /\ call.op = "with_volume"
    /\ call.self.vol.some
    /\ call.self.vol.val # NaN
    /\ call.vol = NaN

\* C8: direction is Bullish when close > open, Bearish when open > close,
\* Neutral when open == close, and no other field changes it.
C8_DirectionTriState ==
    call.op = "direction" =>
        LET c == call.self
        IN  /\ f64_gt(c.close, c.open) => call.ret = 1
            /\ f64_gt(c.open, c.close) => call.ret = -1
            /\ f64_eq(c.open, c.close) => call.ret = 0
            /\ \A x \in F64 :
                  /\ direction([c EXCEPT !.high = x]) = call.ret
                  /\ direction([c EXCEPT !.low = x]) = call.ret
                  /\ direction([c EXCEPT !.vol = Some(x)]) = call.ret
            /\ direction([c EXCEPT !.vol = None]) = call.ret
            /\ \A t \in Timestamps : direction([c EXCEPT !.ts = t]) = call.ret

\* direction was Neutral on a candle with open and close both zero
C8_Witness ==
    /\ call.op = "direction"
    /\ call.ret = 0
    /\ call.self.open = Fin(0)
    /\ call.self.close \in {Fin(0), NegZero}

\* whether filter's options keep a candle: both bounds inclusive, an absent
\* bound keeps everything
Kept(c, opts) ==
    /\ (opts.exclude_before = None \/ c.ts >= opts.exclude_before.val)
    /\ (opts.exclude_after = None \/ c.ts <= opts.exclude_after.val)

\* C9: filter returns exactly the subsequence of the kept candles, in input
\* order, unchanged; with both bounds absent it returns the input.
C9_FilterIsKeptSubsequence ==
    call.op = "filter" =>
        /\ call.ret = SelectSeq(call.input, LAMBDA c : Kept(c, call.opts))
        /\ call.opts = Opts(None, None) => call.ret = call.input

\* both bounds set on an unsorted slice with a duplicate timestamp; some
\* candles kept, some dropped
C9_Witness ==
    /\ call.op = "filter"
    /\ call.opts.exclude_before.some
    /\ call.opts.exclude_after.some
    /\ Len(call.input) = 3
    /\ call.input[1].ts > call.input[2].ts
    /\ call.input[1].ts = call.input[3].ts
    /\ call.input[1] # call.input[3]
    /\ Len(call.ret) = 2

\* every candle of slice s has a non-zero timestamp
AllNonZero(s) == \A i \in 1..Len(s) : s[i].ts # 0

\* C10: on candles with non-zero timestamps, excludeAfter = 0 yields the
\* empty sequence whatever excludeBefore is, and excludeBefore = 0 keeps
\* exactly what the excludeAfter bound alone keeps.
C10_ZeroIsActiveBound ==
    (call.op = "filter" /\ AllNonZero(call.input)) =>
        /\ call.opts.exclude_after = Some(0) => call.ret = << >>
        /\ call.opts.exclude_before = Some(0) =>
              call.ret = SelectSeq(call.input,
                                   LAMBDA c : Kept(c, Opts(None, call.opts.exclude_after)))

\* excludeAfter = 0 with no excludeBefore emptied a non-empty slice
C10_Witness ==
    /\ call.op = "filter"
    /\ call.input # << >>
    /\ AllNonZero(call.input)
    /\ call.opts = Opts(None, Some(0))
    /\ call.ret = << >>

\* the field that each projection reads
ProjectedField ==
    [opens |-> "open", highs |-> "high", lows |-> "low", closes |-> "close"]

\* C11: opens, highs, lows and closes return a sequence as long as the
\* input whose i-th element is that field of the i-th candle, whatever the
\* candles' volume or validity; the empty slice gives the empty sequence.
C11_ProjectionsAreElementwise ==
    call.op \in DOMAIN ProjectedField =>
        /\ Len(call.ret) = Len(call.input)
        /\ \A i \in 1..Len(call.input) :
              call.ret[i] = call.input[i][ProjectedField[call.op]]
        /\ call.input = << >> => call.ret = << >>

\* lows of a full-length slice mixing a valid candle with an invalid one
C11_Witness ==
    /\ call.op = "lows"
    /\ Len(call.input) = MaxLen
    /\ call.input[1].vol.some
    /\ call.input[2].low = NaN
    /\ call.ret[1] # call.ret[2]

VolumeMessage == "Volume must be non-negative and finite"

\* C12: on a candle that a successful build returns, with_volume(v) then
\* validate succeeds iff v is finite and >= 0 and otherwise fails with
\* exactly the volume message (so a valid last volume repairs an earlier
\* invalid one); build never reports the volume violation.
C12_VolumeDecidesValidityAfterBuild ==
    /\ (/\ call.op = "validate"
        /\ call.self.vol.some
        /\ build(args.open, args.high, args.low, args.close, args.ts).tag = "Ok") =>
          IF Finite(call.self.vol.val) /\ f64_ge(call.self.vol.val, Fin(0))
          THEN call.ret.tag = "Ok"
          ELSE call.ret = [tag |-> "Err", errors |-> <<VolumeMessage>>]
    /\ (call.op = "build" /\ call.ret.tag = "Err") =>
          \A i \in 1..Len(call.ret.errors) : call.ret.errors[i] # VolumeMessage

\* validate failed on the volume alone, a NaN, of a candle that builds
C12_Witness ==
    /\ call.op = "validate"
    /\ build(args.open, args.high, args.low, args.close, args.ts).tag = "Ok"
    /\ call.self.vol = Some(NaN)
    /\ call.ret.tag = "Err"

\* C13: direction is Neutral exactly when neither close > open nor
\* open > close; with a NaN open or close it is Neutral although
\* open == close does not hold; the result is always +1, -1 or 0.
C13_NeutralIsFallThrough ==
    call.op = "direction" =>
        LET c == call.self
        IN  /\ call.ret = 0 <=> (~f64_gt(c.close, c.open) /\ ~f64_gt(c.open, c.close))
            /\ (c.open = NaN \/ c.close = NaN) =>
                  (call.ret = 0 /\ ~f64_eq(c.open, c.close))
            /\ call.ret \in {1, -1, 0}

\* direction was taken of a candle whose open is NaN and close is not
C13_Witness ==
    /\ call.op = "direction"
    /\ call.self.open = NaN
    /\ call.self.close # NaN
    /\ call.ret = 0

====
